---- MODULE Spec2Model ----
(***************************************************************************)
(* Model of empty_dir_manager.py: the EmptyDirectoryManager class (the     *)
(* bottom-up traversal find_empty_dirs and its three consumers list /      *)
(* count / trash with _process_batch) and main's exit code.                *)
(*                                                                         *)
(* Directories are the nodes 1..n of a rooted tree (node 1 is the root     *)
(* path); the filesystem is the set of directories that exist, the set of  *)
(* directories holding at least one regular file, and a permission mode    *)
(* per directory.                                                          *)
(***************************************************************************)
EXTENDS Integers, Sequences, FiniteSets, TLC

\* ---- bounds of the model ----
MaxDirs == 4        \* directories in the tree, root included
MaxBatch == 2       \* --batch-size ranges over 0..MaxBatch for the trash action

\* the default of --batch-size
DefaultBatch == 1000
\* self.root_path
Root == 1

\* "rwx": listable, entries can be stat'ed; "---": not listable; "r--": listable, but
\* stat of an entry raises (PermissionError, or another OSError such as EIO)
Modes == {"rwx", "---", "r--"}
\* what the except clauses of find_empty_dirs can catch
Errors == {"PermissionError", "Exception"}
Ops == {"list", "count", "trash"}
\* results of send2trash.send2trash: success, PermissionError, FileNotFoundError, other
Outcomes == {"ok", "perm", "notfound", "other"}

VARIABLES
    parent,         \* parent[d]: the directory holding d (0 for the root)
    exists,         \* directories present on disk
    files,          \* directories holding at least one regular file
    mode,           \* permission mode of each directory
    pristine,       \* the disk is as it was at construction
    ext,            \* an external actor has removed a directory
    batch_size,     \* self.batch_size
    pc,             \* position of the driver / current method
    exitCode,       \* value returned by main (-1: still running)
    op,             \* args.action: the operation main invokes
    gen,            \* generator find_empty_dirs: "none", "fresh", "running", "done"
    stack,          \* os.walk recursion: frames of _walk
    count,          \* local count of list / count / trash
    batch,          \* local batch of trash_empty_dirs
    success_count,  \* local success_count of trash_empty_dirs
    printed,        \* paths printed by list_empty_dirs
    out,            \* paths yielded by the generator in this call
    cls,            \* directories classified (yielded or skipped) in this call
    raised,         \* exception caught by the generator's handlers ("none" if none)
    pb,             \* argument of the running _process_batch
    pidx,           \* index of the next path of pb
    psucc,          \* local success_count of _process_batch
    site,           \* call site of the running _process_batch (131 or 141)
    flushes,        \* batches handed to _process_batch in this call
    attempts,       \* iterations of _process_batch's loop in this call: [path, outcome]
    history         \* completed calls

vars == <<parent, exists, files, mode, pristine, ext, batch_size, pc, exitCode,
          op, gen, stack, count, batch, success_count, printed, out, cls, raised,
          pb, pidx, psucc, site, flushes, attempts, history>>

fsVars == <<exists, files, pristine>>
walkVars == <<gen, stack, out, cls, raised>>
batchVars == <<pb, pidx, psucc, site, flushes, attempts>>

\* ---- the tree ----
Nodes == DOMAIN parent

Children(d) == {c \in Nodes : parent[c] = d}

RECURSIVE IsAncestor(_, _)
\* a is a proper ancestor of d
IsAncestor(a, d) ==
    IF d = 0 \/ parent[d] = 0 THEN FALSE
    ELSE parent[d] = a \/ IsAncestor(a, parent[d])

Subtree(d) == {d} \cup {c \in Nodes : IsAncestor(d, c)}

RECURSIVE SortedSeq(_)
\* the members of a set of directories in listing order
SortedSeq(S) ==
    IF S = {} THEN <<>>
    ELSE LET m == CHOOSE x \in S : \A y \in S : x <= y
         IN <<m>> \o SortedSeq(S \ {m})

Range(s) == {s[i] : i \in DOMAIN s}

\* ---- filesystem primitives ----
\* os.scandir(d) succeeds: d is there, readable, and reachable through its parent
CanScan(d) ==
    /\ d \in exists
    /\ mode[d] # "---"
    /\ (parent[d] # 0 => mode[parent[d]] = "rwx")

\* Path.exists() on d: "raise" when stat fails with an error it does not swallow
Stat(d) ==
    IF parent[d] # 0 /\ mode[parent[d]] = "r--" THEN "raise"
    ELSE IF d \in exists THEN "yes" ELSE "no"

\* the listing os.walk takes of d when it enters it
ScanFrame(d) ==
    LET dirs == SortedSeq(Children(d) \cap exists)
    IN [top |-> d, dirs |-> dirs, nondirs |-> (d \in files),
        todo |-> dirs, yielded |-> FALSE]

\* ---- find_empty_dirs ----
topdown_mut == TRUE
\* the topdown argument find_empty_dirs passes to os.walk
topdown == FALSE

RECURSIVE AnyExists(_)
\* any(subdir.exists() for subdir in full_subdirs), evaluated left to right
AnyExists(dirs) ==
    IF dirs = <<>> THEN "false"
    ELSE LET s == Stat(Head(dirs))
         IN IF s = "raise" THEN "raise"
            ELSE IF s = "yes" THEN "true"
            ELSE AnyExists(Tail(dirs))

Classify_mut(dirnames, filenames) ==
    IF dirnames # <<>>
    THEN LET a == AnyExists(dirnames)
         IN IF a = "raise" THEN "raise"
            ELSE IF a = "true" THEN "skip" ELSE "yield"
    ELSE "yield"
Classify_all(dirnames, filenames) == "yield"

Classify_nocheck(dirnames, filenames) ==
    IF filenames THEN "skip" ELSE "yield"
Classify_noleaf(dirnames, filenames) ==
    IF filenames THEN "skip"
    ELSE IF dirnames # <<>>
    THEN LET a == AnyExists(dirnames)
         IN IF a = "raise" THEN "raise"
            ELSE IF a = "true" THEN "skip" ELSE "yield"
    ELSE "skip"
\* the loop body of find_empty_dirs on one (dirpath, dirnames, filenames): "skip" is
\* continue, "yield" reaches the yield, "raise" is an exception of exists()
Classify(dirnames, filenames) ==
    IF filenames THEN "skip"
    ELSE IF dirnames # <<>>
    THEN LET a == AnyExists(dirnames)
         IN IF a = "raise" THEN "raise"
            ELSE IF a = "true" THEN "skip" ELSE "yield"
    ELSE "yield"

HandlerPc_mut(e) == IF e = "Exception" THEN "exit" ELSE "iter"
\* both except clauses of find_empty_dirs end the generator; its consumer goes on
HandlerPc(e) == "iter"

RECURSIVE Unwind(_)
\* _walk returns from every frame that has nothing left to do
Unwind(st) ==
    IF st = <<>> THEN st
    ELSE LET f == st[Len(st)]
         IN IF f.todo = <<>> /\ f.yielded
            THEN Unwind(SubSeq(st, 1, Len(st) - 1))
            ELSE st

GenAfter_mut(st) == "running"
\* the generator is exhausted when os.walk has returned from the root
GenAfter(st) == IF st = <<>> THEN "done" ELSE "running"

\* ---- initial states ----
Shapes(n) ==
    {p \in [1..n -> 0..n] :
        /\ p[1] = 0
        /\ \A i \in 2..n : p[i] \in 1..(i - 1)
        /\ \A i \in 3..n : p[i - 1] <= p[i]}

Init ==
    /\ \E n \in 1..MaxDirs : parent \in Shapes(n)
    /\ exists \in {{}, DOMAIN parent}
    /\ exists = {} => DOMAIN parent = {Root}
    /\ files \in SUBSET exists
    /\ mode \in [DOMAIN parent -> Modes]
    /\ \E r \in DOMAIN parent : \A d \in DOMAIN parent \ {r} : mode[d] = "rwx"
    /\ exists = {} => mode[Root] = "rwx"
    /\ pristine = TRUE
    /\ ext = FALSE
    /\ op \in Ops
    /\ batch_size \in (IF op = "trash" THEN 0..MaxBatch ELSE {DefaultBatch})
    /\ pc = "main"
    /\ exitCode = -1
    /\ gen = "none"
    /\ stack = <<>>
    /\ count = 0
    /\ batch = <<>>
    /\ success_count = 0
    /\ printed = <<>>
    /\ out = <<>>
    /\ cls = <<>>
    /\ raised = "none"
    /\ pb = <<>>
    /\ pidx = 0
    /\ psucc = 0
    /\ site = 0
    /\ flushes = <<>>
    /\ attempts = <<>>
    /\ history = <<>>

\* ---- main and the constructor ----
RootMissing_mut == FALSE
\* __init__: not self.root_path.exists()
RootMissing == Root \notin exists

\* EmptyDirectoryManager(...) in main: FileNotFoundError is caught by main, which returns 1
Construct ==
    /\ pc = "main"
    /\ IF RootMissing
       THEN pc' = "exit" /\ exitCode' = 1
       ELSE pc' = "idle" /\ exitCode' = exitCode
    /\ UNCHANGED <<parent, mode, ext, batch_size, op, count, batch, success_count,
                   printed, history>>
    /\ UNCHANGED <<fsVars, walkVars, batchVars>>

\* main enters manager.list_empty_dirs() / count_empty_dirs() / trash_empty_dirs()
Call ==
    /\ pc = "idle"
    /\ history = <<>>
    /\ pc' = "iter"
    /\ gen' = "fresh"
    /\ stack' = <<>>
    /\ count' = 0
    /\ batch' = <<>>
    /\ success_count' = 0
    /\ printed' = <<>>
    /\ out' = <<>>
    /\ cls' = <<>>
    /\ raised' = "none"
    /\ flushes' = <<>>
    /\ attempts' = <<>>
    /\ UNCHANGED <<parent, mode, ext, batch_size, exitCode, op, history,
                   pb, pidx, psucc, site>>
    /\ UNCHANGED fsVars

\* main returns 0 after the action
Exit ==
    /\ pc = "idle"
    /\ history # <<>>
    /\ pc' = "exit"
    /\ exitCode' = 0
    /\ UNCHANGED <<parent, mode, ext, batch_size, op, count, batch, success_count,
                   printed, history>>
    /\ UNCHANGED <<fsVars, walkVars, batchVars>>

Again_mut(o) ==
    /\ pc = "idle"
    /\ Len(history) = 1
    /\ op \in {"list", "count"}
    /\ o \in {"list", "count"}
    /\ op' = o
    /\ pc' = "iter"
    /\ gen' = "fresh"
    /\ stack' = <<>>
    /\ UNCHANGED <<parent, mode, ext, batch_size, exitCode, history, count, batch,
                   success_count, printed, out, cls, raised, flushes, attempts,
                   pb, pidx, psucc, site>>
    /\ UNCHANGED fsVars
\* a second operation is invoked on the same manager after a list or a count
Again(o) ==
    /\ pc = "idle"
    /\ Len(history) = 1
    /\ op \in {"list", "count"}
    /\ o \in {"list", "count"}
    /\ op' = o
    /\ pc' = "iter"
    /\ gen' = "fresh"
    /\ stack' = <<>>
    /\ count' = 0
    /\ batch' = <<>>
    /\ success_count' = 0
    /\ printed' = <<>>
    /\ out' = <<>>
    /\ cls' = <<>>
    /\ raised' = "none"
    /\ flushes' = <<>>
    /\ attempts' = <<>>
    /\ UNCHANGED <<parent, mode, ext, batch_size, exitCode, history,
                   pb, pidx, psucc, site>>
    /\ UNCHANGED fsVars

\* ---- the generator find_empty_dirs over os.walk(root, topdown=False) ----
WalkStart_mut ==
    /\ pc = "iter"
    /\ gen = "fresh"
    /\ stack' = IF CanScan(Root)
                THEN Unwind(<<[ScanFrame(Root) EXCEPT !.yielded = TRUE]>>)
                ELSE <<>>
    /\ gen' = GenAfter(stack')
    /\ UNCHANGED <<parent, mode, ext, batch_size, pc, exitCode, op, count, batch,
                   success_count, printed, out, cls, raised, history>>
    /\ UNCHANGED <<fsVars, batchVars>>
\* the first next(): os.walk lists the root (an error of scandir is swallowed by os.walk)
WalkStart ==
    /\ pc = "iter"
    /\ gen = "fresh"
    /\ stack' = IF CanScan(Root) THEN <<ScanFrame(Root)>> ELSE <<>>
    /\ gen' = GenAfter(stack')
    /\ UNCHANGED <<parent, mode, ext, batch_size, pc, exitCode, op, count, batch,
                   success_count, printed, out, cls, raised, history>>
    /\ UNCHANGED <<fsVars, batchVars>>

\* _walk recurses into the next subdirectory of the directory on top of the stack
Descend ==
    /\ pc = "iter"
    /\ gen = "running"
    /\ stack # <<>>
    /\ LET n == Len(stack)
           f == stack[n]
       IN /\ f.todo # <<>>
          /\ topdown => f.yielded
          /\ LET c == Head(f.todo)
                 st1 == [stack EXCEPT ![n].todo = Tail(f.todo)]
             IN stack' = IF CanScan(c) THEN Append(st1, ScanFrame(c)) ELSE Unwind(st1)
    /\ gen' = GenAfter(stack')
    /\ UNCHANGED <<parent, mode, ext, batch_size, pc, exitCode, op, count, batch,
                   success_count, printed, out, cls, raised, history>>
    /\ UNCHANGED <<fsVars, batchVars>>

Accumulate_mut(o, c) == IF o = "count" THEN c ELSE c + 1
\* the consumer counts one yielded directory: count += 1 in list and trash, sum(1 ...) in count
Accumulate(o, c) == c + 1

\* os.walk hands (dirpath, dirnames, filenames) to the loop body of find_empty_dirs;
\* a yielded path runs the body of the consumer's for loop
Visit ==
    /\ pc = "iter"
    /\ gen = "running"
    /\ stack # <<>>
    /\ LET n == Len(stack)
           f == stack[n]
           v == Classify(f.dirs, f.nondirs)
           st1 == IF topdown THEN [stack EXCEPT ![n].yielded = TRUE]
                  ELSE SubSeq(stack, 1, n - 1)
       IN /\ ~f.yielded
          /\ topdown \/ f.todo = <<>>
          /\ stack' = IF v = "raise" THEN <<>> ELSE Unwind(st1)
          /\ gen' = IF v = "raise" THEN "done" ELSE GenAfter(stack')
          /\ IF v = "raise"
             THEN \E e \in Errors : raised' = e /\ pc' = HandlerPc(e)
             ELSE raised' = raised /\ pc' = pc
          /\ cls' = IF v = "raise" THEN cls ELSE Append(cls, f.top)
          /\ out' = IF v = "yield" THEN Append(out, f.top) ELSE out
          /\ count' = IF v = "yield" THEN Accumulate(op, count) ELSE count
          /\ printed' = IF v = "yield" /\ op = "list" THEN Append(printed, f.top) ELSE printed
          /\ batch' = IF v = "yield" /\ op = "trash" THEN Append(batch, f.top) ELSE batch
    /\ UNCHANGED <<parent, mode, ext, batch_size, exitCode, op, success_count,
                   history>>
    /\ UNCHANGED <<fsVars, batchVars>>

\* ---- list_empty_dirs and count_empty_dirs ----
CallRecord(ret) ==
    [op |-> op, ret |-> ret, total |-> count, pristine |-> pristine,
     raised |-> raised, out |-> out]

ListReturn_mut ==
    /\ pc = "iter"
    /\ gen = "done"
    /\ op = "list"
    /\ history' = Append(history, CallRecord(count))
    /\ pc' = "idle"
    /\ exists' = exists \ Range(printed)
    /\ UNCHANGED <<parent, mode, ext, batch_size, exitCode, op, count, batch,
                   success_count, printed, files, pristine>>
    /\ UNCHANGED <<walkVars, batchVars>>
\* list_empty_dirs: the for loop ends, return count
ListReturn ==
    /\ pc = "iter"
    /\ gen = "done"
    /\ op = "list"
    /\ history' = Append(history, CallRecord(count))
    /\ pc' = "idle"
    /\ UNCHANGED <<parent, mode, ext, batch_size, exitCode, op, count, batch,
                   success_count, printed>>
    /\ UNCHANGED <<fsVars, walkVars, batchVars>>

\* count_empty_dirs: sum(1 for _ in self.find_empty_dirs())
CountReturn ==
    /\ pc = "iter"
    /\ gen = "done"
    /\ op = "count"
    /\ history' = Append(history, CallRecord(count))
    /\ pc' = "idle"
    /\ UNCHANGED <<parent, mode, ext, batch_size, exitCode, op, count, batch,
                   success_count, printed>>
    /\ UNCHANGED <<fsVars, walkVars, batchVars>>

\* ---- trash_empty_dirs ----
\* the test that follows the for loop: if len(batch) >= self.batch_size
CheckThreshold ==
    /\ pc = "iter"
    /\ gen = "done"
    /\ op = "trash"
    /\ IF Len(batch) >= batch_size
       THEN /\ pc' = "pb"
            /\ pb' = batch
            /\ pidx' = 1
            /\ psucc' = 0
            /\ site' = 131
            /\ flushes' = Append(flushes, batch)
       ELSE /\ pc' = "L140"
            /\ UNCHANGED <<pb, pidx, psucc, site, flushes>>
    /\ UNCHANGED <<parent, mode, ext, batch_size, exitCode, op, count, batch,
                   success_count, printed, attempts, history>>
    /\ UNCHANGED <<fsVars, walkVars>>

FlushRemainder_mut ==
    /\ pc = "L140"
    /\ pc' = "ret"
    /\ UNCHANGED <<parent, mode, ext, batch_size, exitCode, op, count, batch,
                   success_count, printed, history>>
    /\ UNCHANGED <<fsVars, walkVars, batchVars>>
\* the final test: if batch
FlushRemainder ==
    /\ pc = "L140"
    /\ IF batch # <<>>
       THEN /\ pc' = "pb"
            /\ pb' = batch
            /\ pidx' = 1
            /\ psucc' = 0
            /\ site' = 141
            /\ flushes' = Append(flushes, batch)
       ELSE /\ pc' = "ret"
            /\ UNCHANGED <<pb, pidx, psucc, site, flushes>>
    /\ UNCHANGED <<parent, mode, ext, batch_size, exitCode, op, count, batch,
                   success_count, printed, attempts, history>>
    /\ UNCHANGED <<fsVars, walkVars>>

Counts_mut(o) == o \in {"ok", "notfound"}
\* success_count += 1 is reached only when send2trash returned
Counts(o) == o = "ok"

NextIndex_mut(i, o, n) == IF o \in {"perm", "other"} THEN n + 1 ELSE i + 1
\* every except clause is inside the for loop: the loop goes on with the next path
NextIndex(i, o, n) == i + 1

ItemOutcomes_mut(d) == IF Stat(d) = "raise" THEN {"staterr"} ELSE Outcomes
\* what one iteration can do with path d: "gone" when dir_path.exists() is false,
\* "staterr" when dir_path.exists() raises, else an outcome of send2trash
ItemOutcomes(d) ==
    IF Stat(d) = "yes" THEN Outcomes
    ELSE IF Stat(d) = "no" THEN {"gone"} ELSE {"staterr"}

\* how an iteration ended: send2trash returned ("ok"), an except clause caught what
\* send2trash raised ("fail"), or send2trash was not called ("gone", "staterr")
Result(o) == IF o \in {"perm", "notfound", "other"} THEN "fail" ELSE o

\* one iteration of the for loop of _process_batch
ProcessItem ==
    /\ pc = "pb"
    /\ pidx <= Len(pb)
    /\ LET d == pb[pidx]
       IN \E o \in ItemOutcomes(d) :
             /\ attempts' = Append(attempts, [path |-> d, outcome |-> Result(o)])
             /\ IF o = "ok"
                THEN /\ exists' = exists \ Subtree(d)
                     /\ files' = files \ Subtree(d)
                     /\ pristine' = FALSE
                ELSE UNCHANGED <<exists, files, pristine>>
             /\ psucc' = IF Counts(o) THEN psucc + 1 ELSE psucc
             /\ pidx' = NextIndex(pidx, o, Len(pb))
    /\ UNCHANGED <<parent, mode, ext, batch_size, pc, exitCode, op, count, batch,
                   success_count, printed, pb, site, flushes, history>>
    /\ UNCHANGED walkVars

\* _process_batch returns success_count to its call site
ProcessReturn ==
    /\ pc = "pb"
    /\ pidx > Len(pb)
    /\ success_count' = success_count + psucc
    /\ IF site = 131
       THEN pc' = "L140" /\ batch' = <<>>
       ELSE pc' = "ret" /\ batch' = batch
    /\ UNCHANGED <<parent, mode, ext, batch_size, exitCode, op, count, printed, history>>
    /\ UNCHANGED <<fsVars, walkVars, batchVars>>

\* trash_empty_dirs: return success_count
TrashReturn ==
    /\ pc = "ret"
    /\ history' = Append(history, CallRecord(success_count))
    /\ pc' = "idle"
    /\ UNCHANGED <<parent, mode, ext, batch_size, exitCode, op, count, batch,
                   success_count, printed>>
    /\ UNCHANGED <<fsVars, walkVars, batchVars>>

\* ---- the environment ----
\* another process removes a directory (and what is below it) while an operation runs
ExternalRemove(d) ==
    /\ pc \in {"iter", "pb"}
    /\ ~ext
    /\ d \in exists \ {Root}
    /\ exists' = exists \ Subtree(d)
    /\ files' = files \ Subtree(d)
    /\ pristine' = FALSE
    /\ ext' = TRUE
    /\ UNCHANGED <<parent, mode, batch_size, pc, exitCode, op, count, batch,
                   success_count, printed, history>>
    /\ UNCHANGED <<walkVars, batchVars>>

Next ==
    \/ Construct
    \/ Call
    \/ Exit
    \/ WalkStart
    \/ Descend
    \/ Visit
    \/ ListReturn
    \/ CountReturn
    \/ CheckThreshold
    \/ FlushRemainder
    \/ ProcessItem
    \/ ProcessReturn
    \/ TrashReturn
    \/ \E d \in Nodes : ExternalRemove(d)

Spec == Init /\ [][Next]_vars

\* the steps of the program itself: it is one thread that runs until main returns
Program ==
    \/ Construct
    \/ Call
    \/ Exit
    \/ WalkStart
    \/ Descend
    \/ Visit
    \/ ListReturn
    \/ CountReturn
    \/ CheckThreshold
    \/ FlushRemainder
    \/ ProcessItem
    \/ ProcessReturn
    \/ TrashReturn

\* a run on a tree that nobody else modifies, which the program never stops stepping
SpecLive == Init /\ [][Program]_vars /\ WF_vars(Program)

\* two operations in a row on one manager, neither of them trash
InitRescan == Init /\ op \in {"list", "count"}

NextRescan ==
    \/ Construct
    \/ Call
    \/ \E o \in Ops : Again(o)
    \/ Exit
    \/ WalkStart
    \/ Descend
    \/ Visit
    \/ ListReturn
    \/ CountReturn
    \/ \E d \in Nodes : ExternalRemove(d)

SpecRescan == InitRescan /\ [][NextRescan]_vars

TypeOK ==
    /\ exists \subseteq Nodes
    /\ files \subseteq exists
    /\ pc \in {"main", "idle", "iter", "L140", "pb", "ret", "exit"}
    /\ Len(batch) <= MaxDirs

\* ---- vocabulary of the properties ----
AllRwx == \A d \in Nodes : mode[d] = "rwx"

\* d holds a regular file, directly or inside a descendant directory
HasFileBelow(d) == \E c \in Subtree(d) \cap exists : c \in files

RECURSIVE RecEmpty(_)
\* d has no direct file and all its subdirectories are (recursively) empty
RecEmpty(d) == d \notin files /\ \A c \in Children(d) \cap exists : RecEmpty(c)

\* d has neither a file nor a subdirectory
LeafEmpty(d) == d \notin files /\ Children(d) \cap exists = {}

Occurrences(s, d) == Cardinality({i \in DOMAIN s : s[i] = d})

Paths(log) == [i \in DOMAIN log |-> log[i].path]

NumOk(log) == Cardinality({i \in DOMAIN log : log[i].outcome = "ok"})

Failed(o) == o = "fail"

\* the operation has returned to main
Returned == pc \in {"idle", "exit"} /\ history # <<>>

LastCall == history[Len(history)]

\* the tree is root/x/y/z and holds no file
IsEmptyChain ==
    /\ DOMAIN parent = 1..4
    /\ \A d \in 2..4 : parent[d] = d - 1
    /\ files = {}

\* directories whose listing fails
Unreadable == {d \in exists : ~CanScan(d)}

\* directories whose listing is denied
Denied == Unreadable

\* ---- C1 ----
\* C1 (completeness, P1): after a traversal without enumeration error of an
\* unmodified tree, every directory below the root with no direct file whose subdirectories are all
\* recursively empty occurs exactly once in the yielded sequence; on the empty chain
\* root/x/y/z list prints x/y/z, x/y, x in that order and returns 3.
C1_Completeness ==
    /\ (gen = "done" /\ pristine /\ AllRwx /\ raised = "none")
          => \A d \in exists \ {Root} : RecEmpty(d) => Occurrences(out, d) = 1
    /\ (Returned /\ op = "list" /\ pristine /\ AllRwx /\ IsEmptyChain)
          => (printed = <<4, 3, 2>> /\ LastCall.ret = 3)

\* ---- C2 ----
\* C2 (soundness, P2): in every state of every action, no directory of the yielded
\* sequence holds a regular file, directly or inside a descendant directory.
C2_Soundness == \A i \in DOMAIN out : ~HasFileBelow(out[i])

\* a traversal has ended that yielded something and skipped a directory which has
\* no direct file but a file further down
C2_Witness ==
    /\ gen = "done"
    /\ out # <<>>
    /\ \E d \in Range(cls) \ Range(out) : d \notin files /\ HasFileBelow(d)

\* ---- C3 ----
\* C3 (ordering, P3): a direct subdirectory yielded together with its parent comes
\* strictly before it, no directory is classified after one of its ancestors, and in
\* an undisturbed traversal a classified directory has all its descendants classified.
C3_Ordering ==
    /\ \A i, j \in DOMAIN out : parent[out[i]] = out[j] => i < j
    /\ \A i, j \in DOMAIN cls : i < j => ~IsAncestor(cls[i], cls[j])
    /\ (pristine /\ AllRwx) => \A d \in Range(cls) : Subtree(d) \subseteq Range(cls)

\* a subdirectory and its parent were both yielded by one traversal
C3_Witness == \E i, j \in DOMAIN out : i < j /\ parent[out[i]] = out[j]

\* ---- C4 ----
\* C4 (batch bound, P5): in a trash run with batch_size = N >= 1 the pending buffer
\* batch never holds more than N paths.
C4_BatchBound == (op = "trash" /\ batch_size >= 1) => Len(batch) <= batch_size

\* ---- C5 ----
\* C5 (flush on threshold): a trash run with batch_size = N >= 1 over k yielded
\* directories has flushed as soon as the buffer held N paths, so that it ends with
\* exactly ceil(k / N) flushes, each of N paths except a possibly smaller last one.
C5_FlushOnThreshold ==
    (Returned /\ op = "trash" /\ batch_size >= 1) =>
        /\ Len(flushes) = (count + batch_size - 1) \div batch_size
        /\ \A i \in DOMAIN flushes :
              IF i < Len(flushes) THEN Len(flushes[i]) = batch_size
              ELSE Len(flushes[i]) <= batch_size

\* ---- C7 ----
\* C7 (failure isolation): when trash_empty_dirs has returned, every yielded path has
\* had its iteration of _process_batch, in yield order, whatever errors send2trash
\* raised on other paths, and no path on which it raised is counted as a success.
C7_FailureIsolation ==
    (Returned /\ op = "trash") =>
        /\ Paths(attempts) = out
        /\ LastCall.raised \in {"none", "PermissionError", "Exception"}
        /\ LastCall.ret + Cardinality({i \in DOMAIN attempts : Failed(attempts[i].outcome)})
              <= Len(out)

\* a trash run in which send2trash failed on a path and then succeeded on a later one
C7_Witness ==
    /\ Returned
    /\ op = "trash"
    /\ \E i, j \in DOMAIN attempts :
          i < j /\ Failed(attempts[i].outcome) /\ attempts[j].outcome = "ok"

\* ---- C8 ----
\* C8 (return value of trash): trash_empty_dirs returns the number of yielded paths
\* on which send2trash was invoked and succeeded; it lies between 0 and the number of
\* directories observed, and equals it when every path existed and every call succeeded.
C8_TrashReturn ==
    (Returned /\ op = "trash") =>
        /\ LastCall.ret = NumOk(attempts)
        /\ LastCall.total = Len(out)
        /\ 0 <= LastCall.ret /\ LastCall.ret <= LastCall.total
        /\ (\A d \in Range(out) : \E i \in DOMAIN attempts :
                attempts[i] = [path |-> d, outcome |-> "ok"])
              => LastCall.ret = LastCall.total

\* a trash run that returned a positive number smaller than the number observed
C8_Witness ==
    /\ Returned
    /\ op = "trash"
    /\ LastCall.ret >= 1
    /\ LastCall.ret < LastCall.total

\* ---- C9 ----
\* C9 (permission error during the walk): when the listing of exactly one directory
\* is denied, that directory and its descendants are not yielded, every directory
\* outside it with neither file nor subdirectory is yielded by the end of the
\* traversal, and main exits with code 0.
C9_PermissionIsolation ==
    (Cardinality(Denied) = 1 /\ pristine /\ raised # "Exception") =>
        LET D == CHOOSE d \in Denied : TRUE
        IN /\ Range(out) \cap Subtree(D) = {}
           /\ gen = "done" =>
                 \A e \in Nodes \ Subtree(D) : LeafEmpty(e) => e \in Range(out)
           /\ pc = "exit" => exitCode = 0

\* ---- C10 ----
\* C10 (construction and exit code): with the root path missing, main ends with exit
\* code 1 and neither a traversal step nor a trash call ever happens; exit code 1
\* arises in no other way, and once the chosen action has returned main ends with
\* exit code 0, failed trash attempts included.
C10_ExitCode ==
    /\ (Root \notin exists /\ pristine) =>
          /\ pc \in {"main", "exit"}
          /\ pc = "exit" => exitCode = 1
          /\ gen = "none" /\ cls = <<>> /\ attempts = <<>> /\ history = <<>>
    /\ exitCode = 1 => (Root \notin exists /\ pristine /\ pc = "exit")
    /\ (pc = "exit" /\ history # <<>>) => exitCode = 0
    /\ pc = "exit" => exitCode \in {0, 1}

\* main has returned 0 after a trash run in which send2trash failed on a path
C10_Witness ==
    /\ pc = "exit"
    /\ exitCode = 0
    /\ \E i \in DOMAIN attempts : Failed(attempts[i].outcome)

\* ---- C6 ----
\* C6 (count consistency, P4): list_empty_dirs prints exactly the yielded sequence, in
\* order, and returns its length; a count and a list run on the same manager over the
\* same unmodified tree return the same number.
C6_CountConsistency ==
    /\ (Returned /\ op = "list") => (printed = out /\ LastCall.ret = Len(printed))
    /\ \A i, j \in DOMAIN history :
          (/\ history[i].op = "list"
           /\ history[j].op = "count"
           /\ history[i].pristine
           /\ history[j].pristine) => history[i].ret = history[j].ret

\* a list that printed at least two directories was followed by a count of the same tree
C6_Witness ==
    /\ Len(history) = 2
    /\ history[1].op = "list"
    /\ history[2].op = "count"
    /\ history[2].pristine
    /\ history[1].ret >= 2

\* ---- C11 ----
\* C11 (list and count are read-only): while the action is list or count, send2trash
\* is never invoked, no batch is flushed, and unless an external actor removed
\* something every directory and file is still on disk.
C11_ReadOnly ==
    (op \in {"list", "count"} /\ Root \in Nodes /\ pc # "main") =>
        /\ attempts = <<>>
        /\ flushes = <<>>
        /\ ~ext => (pristine /\ exists \in {{}, Nodes})

\* a list or a count has returned after yielding a directory, with nobody else acting
C11_Witness ==
    /\ Returned
    /\ op \in {"list", "count"}
    /\ ~ext
    /\ out # <<>>
    /\ files # {}

\* ---- C12 ----
\* C12 (idempotent re-scan, P6): two counts in a row on one manager over an unmodified
\* tree return the same value and yield the same sequence, and the second one walks
\* every directory again.
C12_IdempotentRescan ==
    /\ \A i, j \in DOMAIN history :
          (/\ i < j
           /\ history[i].op = "count"
           /\ history[j].op = "count"
           /\ history[j].pristine)
              => (history[i].ret = history[j].ret /\ history[i].out = history[j].out)
    /\ (Len(history) = 2 /\ pc = "idle" /\ pristine /\ Unreadable = {})
          => Range(cls) = Nodes

\* two counts of the same unmodified tree have returned, and they found something
C12_Witness ==
    /\ Len(history) = 2
    /\ history[1].op = "count"
    /\ history[2].op = "count"
    /\ history[2].pristine
    /\ history[2].ret >= 1
    /\ Cardinality(Nodes) >= 3

\* ---- C13 ----
\* C13 (existence re-check): a yielded directory has no direct subdirectory on disk;
\* a directory one of whose subdirectories still exists is not yielded, even when
\* that subdirectory is empty and was yielded earlier in the traversal.
C13_ExistenceRecheck == \A i \in DOMAIN out : Children(out[i]) \cap exists = {}

\* a directory without files was skipped because of a subdirectory that was yielded
\* before it and is still on disk
C13_Witness ==
    \E i, j \in DOMAIN cls :
        /\ i < j
        /\ cls[j] \notin files
        /\ cls[j] \notin Range(out)
        /\ parent[cls[i]] = cls[j]
        /\ cls[i] \in exists
        /\ cls[i] \in Range(out)

\* the tree is root/{a, b/sub} with a file in b only
IsScenarioA ==
    /\ parent = <<0, 1, 1, 3>>
    /\ files = {3}

\* ---- C14 ----
\* C14 (leaf empty directories): when the traversal of an unmodified tree met no
\* enumeration error, every directory with neither file nor subdirectory was yielded
\* exactly once; on root/{a, b/file.txt, b/sub} list prints a and b/sub, not b, and
\* returns 2.
C14_LeafEmpty ==
    /\ (gen = "done" /\ raised = "none" /\ pristine /\ Unreadable = {})
          => \A d \in exists : LeafEmpty(d) => Occurrences(out, d) = 1
    /\ (Returned /\ op = "list" /\ pristine /\ AllRwx /\ IsScenarioA)
          => (printed = <<2, 4>> /\ LastCall.ret = 2)

\* list has returned on the tree root/{a, b/file.txt, b/sub}
C14_Witness == Returned /\ op = "list" /\ pristine /\ AllRwx /\ IsScenarioA

\* ---- C15 ----
\* C15 (root handling): in a traversal that ends without exception the root is the
\* last directory classified, once; it is yielded only if it has no file and no
\* subdirectory on disk, and always then when nobody else acted; list on a root
\* without entries prints the root and returns 1.
C15_RootHandling ==
    /\ (pc = "iter" /\ gen = "done" /\ raised = "none" /\ mode[Root] # "---") =>
          /\ cls # <<>>
          /\ cls[Len(cls)] = Root
          /\ Occurrences(cls, Root) = 1
          /\ Root \in Range(out) => (Root \notin files /\ Children(Root) \cap exists = {})
          /\ (~ext /\ Root \notin files /\ Children(Root) \cap exists = {})
                => Root \in Range(out)
    /\ (Returned /\ op = "list" /\ pristine /\ Nodes = {Root} /\ files = {}
          /\ mode[Root] # "---") => (printed = <<Root>> /\ LastCall.ret = 1)

\* list has returned after yielding the root once everything below it was classified
C15_Witness ==
    /\ Returned
    /\ op = "list"
    /\ Len(cls) >= 2
    /\ out # <<>>
    /\ out[Len(out)] = Root

\* ---- C16 ----
\* C16 (vanished paths at flush): an iteration of _process_batch on a path that is no
\* longer on disk does not invoke send2trash, counts no success, changes nothing on
\* disk and moves on to the next path of the batch.
C16_SkipVanished ==
    [][(pc = "pb" /\ pidx <= Len(pb) /\ pidx' # pidx /\ pb[pidx] \notin exists) =>
          /\ attempts' = Append(attempts, [path |-> pb[pidx], outcome |-> "gone"])
          /\ psucc' = psucc
          /\ exists' = exists
          /\ pidx' = pidx + 1
          /\ pc' = "pb"]_vars

\* a path of the batch had vanished at its turn and a later path was moved to trash
C16_Witness ==
    \E i, j \in DOMAIN attempts :
        i < j /\ attempts[i].outcome = "gone" /\ attempts[j].outcome = "ok"

\* ---- C17 ----
\* C17 (non-permission enumeration error): once the traversal has caught an error
\* other than PermissionError the generator is exhausted, main has not ended with an
\* error, the consumer holds all that was yielded, and the operation returns normally
\* on that prefix: list printed it, count counted it, trash flushed it.
C17_OtherError ==
    raised = "Exception" =>
        /\ gen = "done" /\ stack = <<>>
        /\ pc \in {"iter", "L140", "pb", "ret", "idle", "exit"}
        /\ exitCode # 1
        /\ pc = "exit" => history # <<>>
        /\ count = Len(out)
        /\ op = "list" => printed = out
        /\ (op = "trash" /\ pc = "iter") => batch = out
        /\ Returned =>
              /\ LastCall.total = Len(out)
              /\ op \in {"list", "count"} => LastCall.ret = Len(out)
              /\ op = "trash" => (Paths(attempts) = out /\ LastCall.ret = NumOk(attempts))

\* a trash run whose traversal ended on such an error has moved a directory to trash
C17_Witness ==
    /\ Returned
    /\ op = "trash"
    /\ raised = "Exception"
    /\ NumOk(attempts) >= 1

\* ---- C18 ----
\* C18 (termination and full drain): on a tree that nobody else modifies main
\* eventually returns, after the operation has returned if the root exists; when the
\* operation has returned the generator is exhausted, it was never restarted, and no
\* directory was visited twice.
C18_Termination ==
    /\ <>(pc = "exit" /\ (exitCode # 1 => Returned))
    /\ [](Returned => (gen = "done" /\ stack = <<>>
                          /\ \A d \in Nodes : Occurrences(cls, d) <= 1))
    /\ [][gen = "done" => gen' = "done"]_vars

\* main has returned after a trash run with both a failure and a success
C18_Witness ==
    /\ pc = "exit"
    /\ op = "trash"
    /\ gen = "done"
    /\ NumOk(attempts) >= 1
    /\ \E i \in DOMAIN attempts : attempts[i].outcome = "fail"

RECURSIVE Flatten(_)
Flatten(ss) == IF ss = <<>> THEN <<>> ELSE Head(ss) \o Flatten(Tail(ss))

\* number of iterations on path d in which send2trash was invoked
Invocations(d) ==
    Cardinality({i \in DOMAIN attempts :
                    attempts[i].path = d /\ attempts[i].outcome \in {"ok", "fail"}})

\* ---- C19 ----
\* C19 as stated: when trash_empty_dirs has returned, the flushes taken together are
\* the yielded sequence, send2trash was invoked at most once per path, and the buffer
\* is empty.
C19_Original ==
    (Returned /\ op = "trash") =>
        /\ Flatten(flushes) = out
        /\ \A d \in Nodes : Invocations(d) <= 1
        /\ batch = <<>>

\* C19 (no loss, no duplication in trash, amended): when trash_empty_dirs has
\* returned, for every batch_size, the flushes taken together are the yielded
\* sequence, each path is in one flush, send2trash was invoked at most once per path,
\* and the buffer is empty if the number of yielded paths reached batch_size and
\* still holds the paths of the only flush, if any, otherwise.
C19_NoLoss ==
    (Returned /\ op = "trash") =>
        /\ Flatten(flushes) = out
        /\ \A d \in Range(out) : Occurrences(Flatten(flushes), d) = 1
        /\ \A d \in Nodes : Invocations(d) <= 1
        /\ IF Len(out) >= batch_size THEN batch = <<>>
           ELSE batch = out /\ flushes = (IF out = <<>> THEN <<>> ELSE <<out>>)

\* trash_empty_dirs has returned with batch_size above the number of yielded paths
C19_Witness ==
    /\ Returned
    /\ op = "trash"
    /\ batch # <<>>
    /\ Len(out) < batch_size

\* ---- C20 ----
\* C20 (trash never removes content): send2trash is invoked only on paths yielded in
\* this run; at the moment of the call the path holds no regular file, directly or
\* below, and no subdirectory on disk; no step of the program removes a regular file.
C20_NoContentLost ==
    /\ [](\A i \in DOMAIN attempts : attempts[i].path \in Range(out))
    /\ [][ext' = ext =>
             /\ files' = files
             /\ (pc = "pb" /\ pidx' # pidx /\ pb[pidx] \in exists) =>
                   (~HasFileBelow(pb[pidx]) /\ Children(pb[pidx]) \cap exists = {})]_vars

\* a trash run with nobody else acting moved a directory to trash in a tree with files
C20_Witness ==
    /\ Returned
    /\ op = "trash"
    /\ ~ext
    /\ files # {}
    /\ NumOk(attempts) >= 1

====
